---- MODULE Spec2Model ----
(***************************************************************************)
(* Model of the animation front end: the image service                     *)
(* (getAI, enhancePrompt, base64ToPart, generateFrame, generateStoryboard,  *)
(* generateAnimationFrames, in its inline-prompt and its storyboard-driven *)
(* variant) and the App handlers that call it.                             *)
(*                                                                         *)
(* Strings are sequences of tokens; a token is a TLA+ string.  A value     *)
(* that may be null/undefined is a set with at most one element.           *)
(***************************************************************************)
EXTENDS Integers, Sequences, FiniteSets, TLC

\* ------------------------------------------------------------------ bounds
\* largest frame count a caller passes or the slider is moved to
MaxFrameCount == 3

\* ------------------------------------------------------- option values
Null == {}
Some(x) == {x}
IsNull(o) == o = {}
Get(o) == CHOOSE x \in o : TRUE

\* ------------------------------------------------------- string helpers
RECURSIVE SeqsUpTo(_, _)
SeqsUpTo(S, n) ==
    IF n = 0 THEN {<<>>}
    ELSE LET shorter == SeqsUpTo(S, n - 1)
         IN  shorter \cup {Append(s, c) : s \in {t \in shorter : Len(t) = n - 1}, c \in S}

Contains(s, tok) == \E k \in 1..Len(s) : s[k] = tok

RECURSIVE IsPrefixAt(_, _, _)
IsPrefixAt(sub, s, k) ==
    \/ sub = <<>>
    \/ /\ k <= Len(s)
       /\ s[k] = Head(sub)
       /\ IsPrefixAt(Tail(sub), s, k + 1)

\* String.prototype.includes on token strings
Includes(s, sub) == \E k \in 1..(Len(s) + 1) : IsPrefixAt(sub, s, k)

IsSpace(c) == c = " "

\* String.prototype.trim
RECURSIVE TrimLeft(_)
TrimLeft(s) == IF s # <<>> /\ IsSpace(Head(s)) THEN TrimLeft(Tail(s)) ELSE s

RECURSIVE TrimRight(_)
TrimRight(s) ==
    IF s # <<>> /\ IsSpace(s[Len(s)]) THEN TrimRight(SubSeq(s, 1, Len(s) - 1)) ELSE s

Trim(s) == TrimRight(TrimLeft(s))

\* String.prototype.split(sep) for a one-token separator
RECURSIVE Split(_, _)
Split(s, sep) ==
    IF \E k \in 1..Len(s) : s[k] = sep
    THEN LET k == CHOOSE j \in 1..Len(s) : s[j] = sep /\ \A m \in 1..(j - 1) : s[m] # sep
         IN  <<SubSeq(s, 1, k - 1)>> \o Split(SubSeq(s, k + 1, Len(s)), sep)
    ELSE <<s>>

\* ------------------------------------------------------- input alphabets
\* base64 payloads the image model returns: empty, and two different images
Datas == {<<>>, <<"A">>, <<"B">>}
\* texts typed by the user or passed by a caller: empty, blank, plain
Texts == {<<>>, <<" ">>, <<"k">>}
\* texts returned by the refiner's remote call: the same, or padded
RefinedTexts == Texts \cup {<<"k", " ">>}
InitialPrompt == <<"k">>
ParseErrorMessages == {<<"Unexpected token in JSON">>, <<"JSON.parse", ": unexpected character">>}
SdkMessage == <<"fetch failed">>
TypeErrorMessage == <<"Cannot read properties of undefined">>

\* ------------------------------------------------------- messages
ConfigError == <<"API key is not configured. Please set the API_KEY environment variable.">>
EnhanceError == <<"Failed to enhance prompt. The AI may be experiencing issues.">>
Base64FormatError == <<"Invalid base64 data URL format.">>
StoryboardJsonError == <<"Failed to generate animation storyboard. The planning AI returned an invalid JSON format.">>
StoryboardGenericError == <<"Failed to generate animation storyboard. The planning AI may be experiencing issues.">>
UnknownGenerationError == <<"An unknown error occurred while generating the animation.">>
StyleInstruction == <<"Style: A raw, sketchy anime keyframe (genga).">>


\* ------------------------------------------------------- thrown values
\* A JavaScript exception: isError is `error instanceof Error`.
Exception(isErr, msg) == [isError |-> isErr, message |-> msg]
Thrown(exc) == [threw |-> TRUE, exc |-> exc, value |-> <<>>]
Returned(v) == [threw |-> FALSE, exc |-> Exception(TRUE, <<>>), value |-> v]

\* ------------------------------------------------------- base64ToPart
DataUrlHeader == <<"data", ":", "image/png", ";", "base64">>

\* `data:image/png;base64,${part.inlineData.data}`
DataUrl(data) == DataUrlHeader \o <<",">> \o data

\* header.match(/:(.*?);/)?.[1] || 'image/png'
MimeTypeOf(header) ==
    IF \E a \in 1..Len(header) : header[a] = ":" /\ \E b \in (a + 1)..Len(header) : header[b] = ";"
    THEN LET a == CHOOSE x \in 1..Len(header) :
                     /\ header[x] = ":"
                     /\ \E b \in (x + 1)..Len(header) : header[b] = ";"
                     /\ \A y \in 1..(x - 1) :
                            ~(header[y] = ":" /\ \E b \in (y + 1)..Len(header) : header[b] = ";")
             b == CHOOSE x \in (a + 1)..Len(header) :
                     header[x] = ";" /\ \A y \in (a + 1)..(x - 1) : header[y] # ";"
             group == SubSeq(header, a + 1, b - 1)
         IN  IF group = <<>> THEN <<"image/png">> ELSE group
    ELSE <<"image/png">>

base64ToPart(base64Data) ==
    LET pieces == Split(base64Data, ",")
        header == pieces[1]
        dataDefined == Len(pieces) >= 2
        data == IF dataDefined THEN pieces[2] ELSE <<>>
    IN  IF header = <<>> \/ ~dataDefined \/ data = <<>>
        THEN Thrown(Exception(TRUE, Base64FormatError))
        ELSE Returned([data |-> data, mimeType |-> MimeTypeOf(header)])

\* ------------------------------------------------------- generateFrame
TextPart == [inline |-> FALSE, data |-> <<>>]
InlinePart(d) == [inline |-> TRUE, data |-> d]
ResponseParts == {TextPart} \cup {InlinePart(d) : d \in Datas}

GenReject == [kind |-> "reject", parts |-> <<>>]
GenRejectNonError == [kind |-> "rejectNonError", parts |-> <<>>]
GenNoCandidates == [kind |-> "noCandidates", parts |-> <<>>]
GenOk(ps) == [kind |-> "ok", parts |-> ps]
GenResponses ==
    {GenReject, GenRejectNonError, GenNoCandidates} \cup {GenOk(ps) : ps \in SeqsUpTo(ResponseParts, 2)}

ImageGenerationFailed(prompt) ==
    <<"Image generation failed for prompt: ">> \o <<"'">> \o prompt \o <<"'">>

\* generateFrame up to the remote call: the reference part, if any, is built
\* first; the value is the reference handed to the call (Null when none).
generateFrameParts(referenceFrameB64) ==
    IF IsNull(referenceFrameB64) \/ Get(referenceFrameB64) = <<>>
    THEN Returned(Null)
    ELSE LET part == base64ToPart(Get(referenceFrameB64))
         IN  IF part.threw THEN part ELSE Returned(Some(part.value))

\* generateFrame after the remote call settled with resp
generateFrameResult(resp, prompt) ==
    CASE resp.kind = "reject" -> Thrown(Exception(TRUE, SdkMessage))
      [] resp.kind = "rejectNonError" -> Thrown(Exception(FALSE, SdkMessage))
      [] resp.kind = "noCandidates" -> Thrown(Exception(TRUE, TypeErrorMessage))
      [] OTHER ->
           IF \E k \in 1..Len(resp.parts) : resp.parts[k].inline
           THEN LET k == CHOOSE j \in 1..Len(resp.parts) :
                            resp.parts[j].inline /\ \A m \in 1..(j - 1) : ~resp.parts[m].inline
                IN  Returned(DataUrl(resp.parts[k].data))
           ELSE Thrown(Exception(TRUE, ImageGenerationFailed(prompt)))

\* ------------------------------------------------------- frame prompts
FirstFrameInstruction == "This is the **first frame** of a "
FinalFrameInstruction == "This is the **final frame** of a "
ConcludeInstruction == "create the **absolute conclusion** of the motion. The action should be fully completed and settled."
NextPoseInstruction == "generate the very next logical step in the action, using the provided image as the immediate previous frame."
StoryboardStepInstruction == "Using the provided image as the immediate previous frame, generate the very next logical step in the action."

\* variant that treats the last frame like an intermediate one
InlineFramePromptNoFinal(i, fc, motionPrompt) ==
    IF i = 1
    THEN StyleInstruction \o <<FirstFrameInstruction, ToString(fc),
             "-frame animation. Depict the **absolute beginning** of the motion: ">>
             \o motionPrompt \o <<"The scene should be static, right before the main action starts.">>
    ELSE StyleInstruction \o <<"This is frame ", ToString(i), " of a ", ToString(fc),
             "-frame animation of ">> \o motionPrompt \o <<NextPoseInstruction>>

\* part_000: the prompt composed inline for frame i (1-based) of frameCount
InlineFramePrompt(i, fc, motionPrompt) ==
    IF i = 1
    THEN StyleInstruction \o <<FirstFrameInstruction, ToString(fc),
             "-frame animation. Depict the **absolute beginning** of the motion: ">>
             \o motionPrompt \o <<"The scene should be static, right before the main action starts.">>
    ELSE IF i = fc /\ fc > 1
    THEN StyleInstruction \o <<FinalFrameInstruction, ToString(fc), "-frame animation of ">>
             \o motionPrompt \o <<ConcludeInstruction>>
    ELSE StyleInstruction \o <<"This is frame ", ToString(i), " of a ", ToString(fc),
             "-frame animation of ">> \o motionPrompt \o <<NextPoseInstruction>>

\* imageService.ts: the prompt for loop index i0 (0-based) from the storyboard
StoryboardFramePrompt(i0, fc, storyboardPrompt) ==
    LET frameIndex == i0 + 1
    IN  IF i0 = 0
        THEN StyleInstruction \o <<FirstFrameInstruction, ToString(fc),
                 "-frame animation. The detailed instruction for this frame is: ">>
                 \o storyboardPrompt
        ELSE StyleInstruction \o <<"This is frame ", ToString(frameIndex), " of a ", ToString(fc),
                 "-frame animation. ", StoryboardStepInstruction,
                 " The precise instruction for this frame is: ">>
                 \o storyboardPrompt \o <<"Ensure the transition is smooth and physically plausible.">>

GeneratingFrameMessage(i, fc) == <<"Generating frame ", ToString(i), " of ", ToString(fc), "...">>
AnalyzingMessage == <<"Analyzing motion and creating storyboard...">>
StoryboardCreatedMessage == <<"Storyboard created. Starting frame generation...">>
CompleteMessage == <<"Generation complete!">>
InitializingMessage == <<"Initializing...">>

\* ------------------------------------------------------- generateStoryboard
DescriptionTexts == {<<"p">>}
\* one element of the storyboard array: frame_description is a string (text,
\* possibly empty) or something else (missing, number, ...)
StoryboardFrames ==
    {[isString |-> TRUE, text |-> t] : t \in DescriptionTexts \cup {<<>>}}
        \cup {[isString |-> FALSE, text |-> <<>>]}

PlanResponse(kind, msg, fr) == [kind |-> kind, message |-> msg, frames |-> fr]
PlanResponses ==
    {PlanResponse(k, <<>>, <<>>) : k \in {"reject", "rejectNonError", "noText", "noStoryboard"}}
        \cup {PlanResponse("badJson", m, <<>>) : m \in ParseErrorMessages}
        \cup {PlanResponse("array", <<>>, fr) : fr \in SeqsUpTo(StoryboardFrames, MaxFrameCount + 1)}

WrongCountError(fc, got) ==
    <<"Storyboard generation failed: AI returned an invalid format or wrong number of frames. Expected ",
      ToString(fc), ", got ", (IF got = 0 THEN "none" ELSE ToString(got)), ".">>
MissingDescriptionError ==
    <<"Storyboard generation failed: A frame description was missing or not a string.">>

\* variant of the try block that does not validate the frame descriptions
StoryboardTryUnvalidated(resp, fc) ==
    CASE resp.kind = "reject" -> Thrown(Exception(TRUE, SdkMessage))
      [] resp.kind = "rejectNonError" -> Thrown(Exception(FALSE, SdkMessage))
      [] resp.kind = "noText" -> Thrown(Exception(TRUE, TypeErrorMessage))
      [] resp.kind = "badJson" -> Thrown(Exception(TRUE, resp.message))
      [] resp.kind = "noStoryboard" -> Thrown(Exception(TRUE, TypeErrorMessage))
      [] OTHER ->
           IF Len(resp.frames) # fc
           THEN Thrown(Exception(TRUE, WrongCountError(fc, Len(resp.frames))))
           ELSE Returned([k \in 1..Len(resp.frames) |-> resp.frames[k].text])

\* the body of the try block of generateStoryboard, lines 102-172
StoryboardTry(resp, fc) ==
    CASE resp.kind = "reject" -> Thrown(Exception(TRUE, SdkMessage))
      [] resp.kind = "rejectNonError" -> Thrown(Exception(FALSE, SdkMessage))
      [] resp.kind = "noText" -> Thrown(Exception(TRUE, TypeErrorMessage))
      [] resp.kind = "badJson" -> Thrown(Exception(TRUE, resp.message))
      [] resp.kind = "noStoryboard" -> Thrown(Exception(TRUE, TypeErrorMessage))
      [] OTHER ->
           IF Len(resp.frames) # fc
           THEN Thrown(Exception(TRUE, WrongCountError(fc, Len(resp.frames))))
           ELSE IF \E k \in 1..Len(resp.frames) :
                      ~resp.frames[k].isString \/ resp.frames[k].text = <<>>
           THEN Thrown(Exception(TRUE, MissingDescriptionError))
           ELSE Returned([k \in 1..Len(resp.frames) |-> resp.frames[k].text])

\* the catch block of generateStoryboard, lines 174-180
StoryboardCatch(exc) ==
    IF exc.isError /\ Includes(exc.message, <<"JSON.parse">>)
    THEN Thrown(Exception(TRUE, StoryboardJsonError))
    ELSE Thrown(Exception(TRUE, StoryboardGenericError))

generateStoryboard(resp, fc) ==
    LET tried == StoryboardTry(resp, fc)
    IN  IF tried.threw THEN StoryboardCatch(tried.exc) ELSE tried

\* variant of the catch block that rethrows the exception as it is
AnimationCatchUnwrapped(exc) == Thrown(exc)

\* the catch block of generateAnimationFrames
AnimationCatch(exc) ==
    IF exc.isError
    THEN Thrown(Exception(TRUE, <<"Failed to generate animation: ">> \o exc.message))
    ELSE Thrown(Exception(TRUE, UnknownGenerationError))

\* ------------------------------------------------------- enhancePrompt
EnhanceResponse(kind, text) == [kind |-> kind, text |-> text]
EnhanceResponses ==
    {EnhanceResponse(k, <<>>) : k \in {"reject", "noText"}}
        \cup {EnhanceResponse("ok", t) : t \in RefinedTexts}

\* enhancePrompt after its remote call settled with resp, lines 24-43
enhancePromptResult(resp) ==
    IF resp.kind = "ok"
    THEN Returned(Trim(resp.text))
    ELSE Thrown(Exception(TRUE, EnhanceError))

\* variant that builds a new client on every call
getAIUncached(instance, key) ==
    IF ~key
    THEN [threw |-> TRUE, aiInstance |-> instance, built |-> 0]
    ELSE [threw |-> FALSE, aiInstance |-> TRUE, built |-> 1]

\* ------------------------------------------------------- getAI
\* getAI(): the handle after the call, whether it threw, and whether a new
\* GoogleGenAI was constructed
getAI(instance, key) ==
    IF ~instance
    THEN IF ~key
         THEN [threw |-> TRUE, aiInstance |-> instance, built |-> 0]
         ELSE [threw |-> FALSE, aiInstance |-> TRUE, built |-> 1]
    ELSE [threw |-> FALSE, aiInstance |-> instance, built |-> 0]

\* ------------------------------------------------------- one run of
\* generateAnimationFrames: its locals, its settled result, and the record
\* of what it did to the outside (progress callbacks and remote calls)
Event(ev, frame, text, ref, image) ==
    [ev |-> ev, frame |-> frame, text |-> text, ref |-> ref, image |-> image]
ProgressEvent(msg) == Event("progress", 0, msg, Null, Null)
PlanStartEvent == Event("planStart", 0, <<>>, Null, Null)
\* the planner settled: how (resp.kind), with how many array elements, and
\* whether some element has an empty or non-string frame_description
HasBadDescription(resp) ==
    \E k \in 1..Len(resp.frames) : ~resp.frames[k].isString \/ resp.frames[k].text = <<>>
PlanEndEvent(resp) ==
    Event("planEnd", Len(resp.frames),
          IF HasBadDescription(resp) THEN <<resp.kind, "badDescription">> ELSE <<resp.kind>>,
          Null, Null)
\* the image call for frame i is issued with this prompt and reference part
GenStartEvent(i, prompt, ref) == Event("genStart", i, prompt, ref, Null)
\* the image call for frame i settled: how (kind), and with which image payload
GenEndEvent(i, kind, image) == Event("genEnd", i, <<kind>>, Null, image)

NewRun(motionPrompt, fc) ==
    [pc |-> "idle", motionPrompt |-> motionPrompt, frameCount |-> fc, i |-> 0,
     allFrames |-> <<>>, previousFrame |-> Null, storyboard |-> <<>>,
     currentFramePrompt |-> <<>>, result |-> Null, log |-> <<>>]

onProgress(r, msg) == [r EXCEPT !.log = Append(@, ProgressEvent(msg))]

Settle(r, outcome) == [r EXCEPT !.pc = "idle", !.result = Some(outcome)]

\* variant that swallows the exception and returns the frames made so far
CatchAndReturnPartial(r, exc) == Settle(r, Returned(r.allFrames))

\* an exception thrown inside the try block of generateAnimationFrames
CatchAndRethrow(r, exc) == Settle(r, AnimationCatch(exc))

\* the prompt of frame r.i: composed inline, or taken from the storyboard
ComposeFramePrompt(r, v) ==
    IF v = "inline"
    THEN InlineFramePrompt(r.i, r.frameCount, r.motionPrompt)
    ELSE StoryboardFramePrompt(r.i - 1, r.frameCount, r.storyboard[r.i])

\* the reference passed to generateFrame for the frame about to be generated
ReferenceArgument(r) == r.previousFrame

\* variant that keeps the first frame as the reference for all later frames
UpdatePreviousFrameStale(previousFrame, nextFrame) ==
    IF IsNull(previousFrame) THEN Some(nextFrame) ELSE previousFrame

\* `previousFrame = nextFrame`
UpdatePreviousFrame(previousFrame, nextFrame) == Some(nextFrame)

\* `allFrames.push(nextFrame)`
PushFrame(allFrames, nextFrame) == Append(allFrames, nextFrame)

\* variant of the loop body that issues the call without reporting progress
BeginFrameSilent(r, v) ==
    LET prompt == ComposeFramePrompt(r, v)
        parts == generateFrameParts(ReferenceArgument(r))
    IN  IF parts.threw
        THEN CatchAndRethrow(r, parts.exc)
        ELSE [r EXCEPT !.pc = "frame", !.currentFramePrompt = prompt,
                       !.log = Append(@, GenStartEvent(r.i, prompt, parts.value))]

\* loop body for frame r.i up to the await of the remote call
BeginFrame(r, v) ==
    LET r1 == onProgress(r, GeneratingFrameMessage(r.i, r.frameCount))
        prompt == ComposeFramePrompt(r1, v)
        parts == generateFrameParts(ReferenceArgument(r1))
    IN  IF parts.threw
        THEN CatchAndRethrow(r1, parts.exc)
        ELSE [r1 EXCEPT !.pc = "frame", !.currentFramePrompt = prompt,
                        !.log = Append(@, GenStartEvent(r.i, prompt, parts.value))]

\* variant of the loop condition that stops one frame early
LoopContinuesOffByOne(i, fc) == i < fc

\* the loop condition
LoopContinues(i, fc) == i <= fc

\* variant that reports completion when it starts the last frame
LoopOrReturnEarlyComplete(r, v) ==
    IF LoopContinues(r.i, r.frameCount)
    THEN BeginFrame(IF r.i = r.frameCount THEN onProgress(r, CompleteMessage) ELSE r, v)
    ELSE Settle(r, Returned(r.allFrames))

\* loop test, then either the next frame or the successful return
LoopOrReturn(r, v) ==
    IF LoopContinues(r.i, r.frameCount)
    THEN BeginFrame(r, v)
    ELSE Settle(onProgress(r, CompleteMessage), Returned(r.allFrames))

\* variant of the guard that lets a frame count of 0 through
ShortCircuitsNegativeOnly(fc) == fc < 0

\* the frame-count guard `if (frameCount < 1) return []`
ShortCircuits(fc) == fc < 1

\* generateAnimationFrames from its entry to its first await (or its end)
generateAnimationFramesStart(motionPrompt, fc, v, ai) ==
    LET r == NewRun(motionPrompt, fc)
    IN  IF ai.threw THEN Settle(r, Thrown(Exception(TRUE, ConfigError)))
        ELSE IF ShortCircuits(fc) THEN Settle(r, Returned(<<>>))
        ELSE IF v = "storyboard"
        THEN [onProgress(r, AnalyzingMessage) EXCEPT
                  !.pc = "planning", !.log = Append(@, PlanStartEvent)]
        ELSE LoopOrReturn([r EXCEPT !.i = 1], v)

\* the storyboard variant resumed with the planner's response
OnPlanResponse(r, resp, v) ==
    LET sb == generateStoryboard(resp, r.frameCount)
        r1 == [r EXCEPT !.log = Append(@, PlanEndEvent(resp))]
    IN  IF sb.threw
        THEN CatchAndRethrow(r1, sb.exc)
        ELSE LoopOrReturn([onProgress(r1, StoryboardCreatedMessage) EXCEPT
                               !.storyboard = sb.value, !.i = 1], v)

ResponseImage(resp) ==
    IF resp.kind = "ok" /\ \E k \in 1..Len(resp.parts) : resp.parts[k].inline
    THEN LET k == CHOOSE j \in 1..Len(resp.parts) :
                     resp.parts[j].inline /\ \A m \in 1..(j - 1) : ~resp.parts[m].inline
         IN  Some(resp.parts[k].data)
    ELSE Null

\* the loop resumed with the image model's response for frame r.i
OnFrameResponse(r, resp, v) ==
    LET res == generateFrameResult(resp, r.currentFramePrompt)
        r1 == [r EXCEPT !.log = Append(@, GenEndEvent(r.i, resp.kind, ResponseImage(resp)))]
    IN  IF res.threw
        THEN CatchAndRethrow(r1, res.exc)
        ELSE LoopOrReturn([r1 EXCEPT !.allFrames = PushFrame(@, res.value),
                                     !.previousFrame = UpdatePreviousFrame(@, res.value),
                                     !.i = @ + 1], v)

\* ------------------------------------------------------- state
\* The credential is read from the process environment and does not change
\* while the process runs.  The repository holds two generateAnimationFrames,
\* the inline-prompt one (part_000) and the storyboard-driven one
\* (services/imageService.ts); a build links one of them.  The service is
\* called either by the App component or directly by another caller of the
\* exported functions, which may pass any frame count.
\*
\* A step is what runs between two awaits: a handler or exported function
\* from its entry to its first await, or the resumption after a remote call
\* settled up to the next await, the App's continuation included.
VARIABLES
    apiKey,        \* process.env.API_KEY is set (fixed for the process)
    variant,       \* which generateAnimationFrames is linked: "inline" | "storyboard"
    driver,        \* who calls the service: the "App" component or a "direct" caller
    aiInstance,    \* the module-level client handle is non-null
    constructed,   \* number of `new GoogleGenAI` evaluations so far
    run,           \* the generateAnimationFrames invocation (see NewRun)
    enhance,       \* the enhancePrompt invocation: its position, the remote calls it
                   \* made, how its remote call settled, and its settled result
    prompt, frameCount, frames, isLoading, isEnhancing, error, progress, \* App state
    playbackSpeed, isCreatingGif,                                        \* App state
    gifWorkerUrl,  \* the pre-fetch of the encoder's worker script: "pending",
                   \* "ready" (the ref holds a URL) or "failed"
    player,        \* the AnimationPlayer component: mounted or not, its
                   \* currentFrame (0-based) and the interval timers alive
    export,        \* the handleDownload invocation (see IdleExport)
    download       \* the file the step just taken handed to the browser as
                   \* animation.gif (null when it downloaded nothing)

svcVars == <<aiInstance, constructed, run, enhance>>
uiVars == <<prompt, frameCount, frames, isLoading, isEnhancing, error, progress>>
exportVars == <<isCreatingGif, gifWorkerUrl, export>>
playVars == <<playbackSpeed, player, isCreatingGif, gifWorkerUrl, export>>
vars == <<apiKey, variant, driver, aiInstance, constructed, run, enhance,
          prompt, frameCount, frames, isLoading, isEnhancing, error, progress,
          playbackSpeed, isCreatingGif, gifWorkerUrl, player, export, download>>

DefaultFrameCount == 4
SliderMin == 2
FrameCountArgs == (0 - 1)..MaxFrameCount
SliderValues == SliderMin..MaxFrameCount

IdleEnhance == [pc |-> "idle", calls |-> 0, response |-> "none", result |-> Null]

DefaultPlaybackSpeed == 500
\* positions of the playback-speed slider (min 100, max 1000, step 50)
PlaybackSpeeds == {100, 500, 1000}

\* the AnimationPlayer is not rendered
Unmounted == [mounted |-> FALSE, currentFrame |-> 0, timers |-> <<>>]

\* no export is in flight.  An export in flight holds the frames and the
\* speed its handler closed over, the state of each image load, what the
\* encoder was given, and whether some image loaded before an earlier one.
IdleExport == [pc |-> "idle", frames |-> <<>>, speed |-> 0, loads |-> <<>>,
               encoder |-> <<>>, outOfOrder |-> FALSE]

Init ==
    /\ apiKey \in BOOLEAN
    /\ variant \in {"inline", "storyboard"}
    /\ driver \in {"App", "direct"}
    /\ aiInstance = FALSE
    /\ constructed = 0
    /\ run = NewRun(<<>>, 0)
    /\ enhance = IdleEnhance
    /\ prompt = InitialPrompt
    /\ frameCount = DefaultFrameCount
    /\ frames = Null
    /\ isLoading = FALSE
    /\ isEnhancing = FALSE
    /\ error = Null
    /\ progress = Null
    /\ playbackSpeed = DefaultPlaybackSpeed
    /\ isCreatingGif = FALSE
    /\ gifWorkerUrl = "pending"
    /\ player = Unmounted
    /\ export = IdleExport
    /\ download = Null

\* ------------------------------------------------------- AnimationPlayer
\* `{frames && !isLoading && <AnimationPlayer .../>}`
PlayerShown(fr, loading) == ~IsNull(fr) /\ ~loading

\* the timer `setInterval(..., 1100 - speed)` whose callback closes over frames
Interval(fr, speed) == [period |-> 1100 - speed, length |-> Len(fr)]

\* the body of the player's effect for the props (fr, speed)
Effect(timers, fr, speed) ==
    IF Len(fr) < 2 THEN timers ELSE Append(timers, Interval(fr, speed))

\* variant whose cleanup leaves the timer running
EffectCleanupLeaks(timers, fr) == timers

\* the cleanup the effect for frames fr returned: clearInterval of the timer
\* it started (an effect that returned early returned no cleanup)
EffectCleanup(timers, fr) ==
    IF Len(fr) < 2 \/ timers = <<>> THEN timers ELSE SubSeq(timers, 1, Len(timers) - 1)

\* variant of the timer callback without the wrap-around
NextFrameUnwrapped(prevFrame, length) == prevFrame + 1

\* the timer callback `prevFrame => (prevFrame + 1) % frames.length`
NextFrame(prevFrame, length) == (prevFrame + 1) % length

\* the player p after the App rendered with frames fr, loading flag and
\* speed, when the render before had the effect dependencies prev:
\* unmounted (its state dropped, its effect cleaned up), mounted afresh
\* (useState(0), effect run), or re-rendered (effect re-run when a dependency
\* changed)
AnimationPlayer(p, prev, fr, loading, speed) ==
    IF ~PlayerShown(fr, loading)
    THEN IF p.mounted
         THEN [Unmounted EXCEPT !.timers = EffectCleanup(p.timers, Get(prev[1]))]
         ELSE p
    ELSE IF ~p.mounted
         THEN [mounted |-> TRUE, currentFrame |-> 0,
               timers |-> Effect(p.timers, Get(fr), speed)]
         ELSE IF prev # <<fr, speed>>
              THEN [p EXCEPT !.timers = Effect(EffectCleanup(@, Get(prev[1])), Get(fr), speed)]
              ELSE p

\* ------------------------------------------------------- export
\* handleDownload lines 134-152: the handler closes over frames and
\* playbackSpeed and starts one image load per frame
StartExport(fr, speed) ==
    [pc |-> "loading", frames |-> fr, speed |-> speed,
     loads |-> [k \in 1..Len(fr) |-> "pending"], encoder |-> <<>>, outOfOrder |-> FALSE]

\* image load i of the export settled
LoadSettled(e, i, ok) ==
    [e EXCEPT !.loads[i] = IF ok THEN "loaded" ELSE "failed",
              !.outOfOrder = @ \/ (ok /\ \E j \in 1..(i - 1) : e.loads[j] = "pending")]

\* variant that waits for every load and then goes on whatever their outcome
AwaitAllSettled(e) ==
    IF \E k \in 1..Len(e.loads) : e.loads[k] = "pending" THEN "pending" ELSE "resolved"

\* `await Promise.all(imageLoadPromises)`
AwaitAll(e) ==
    IF \E k \in 1..Len(e.loads) : e.loads[k] = "failed" THEN "rejected"
    ELSE IF \E k \in 1..Len(e.loads) : e.loads[k] = "pending" THEN "pending"
    ELSE "resolved"

\* variant that reads the speed on display when the loads are done
EncoderDelayCurrent(e, speedNow) == 1100 - speedNow

\* `{ delay: 1100 - playbackSpeed }` with the speed the handler closed over
EncoderDelay(e, speedNow) == 1100 - e.speed

\* variant that hands the frames over last to first
AddFramesReversed(e, speedNow) ==
    [k \in 1..Len(e.frames) |->
        [index |-> Len(e.frames) + 1 - k, src |-> e.frames[Len(e.frames) + 1 - k],
         delay |-> EncoderDelay(e, speedNow)]]

\* `loadedImages.forEach(img => gif.addFrame(img, ...))`: Promise.all yields
\* the images in the order of the promises, the image of frame k at place k
AddFrames(e, speedNow) ==
    [k \in 1..Len(e.frames) |->
        [index |-> k, src |-> e.frames[k], delay |-> EncoderDelay(e, speedNow)]]

\* the download button `disabled={isCreatingGif}`
DownloadEnabled == ~isCreatingGif

LoadFailedMessage == <<"Failed to create GIF: ", "Failed to load an image frame.">>
WorkerFailedMessage == <<"Could not initialize GIF downloader component.">>

\* ------------------------------------------------------- App continuations
\* the last progress message the run reported since its log had length n
LastProgressSince(r, n) ==
    LET idx == {k \in (n + 1)..Len(r.log) : r.log[k].ev = "progress"}
    IN  IF idx = {} THEN Null
        ELSE Some(r.log[CHOOSE k \in idx : \A m \in idx : m <= k].text)

\* `setError(err.message)` or the unknown-error text
ErrorText(exc, unknownText) == IF exc.isError THEN exc.message ELSE unknownText

\* the App state the generation handler writes
GenerateUi == [frames |-> frames, error |-> error, isLoading |-> isLoading, progress |-> progress]

\* variant that keeps the frames on display when a run starts
GenerateUiStartKeepsFrames(ui) ==
    [ui EXCEPT !.isLoading = TRUE, !.error = Null, !.progress = Some(InitializingMessage)]

\* handleGenerateAnimation lines 106-109
GenerateUiStart(ui) ==
    [ui EXCEPT !.isLoading = TRUE, !.error = Null, !.frames = Null,
               !.progress = Some(InitializingMessage)]

\* variant without the finally block: a failed run leaves the loading flag
\* and the progress message as they were
GenerateUiResumeNoFinally(ui, n, r1) ==
    IF r1.pc = "idle"
    THEN LET out == Get(r1.result)
         IN  IF out.threw
             THEN [ui EXCEPT !.error = Some(ErrorText(out.exc, <<"An unknown error occurred.">>))]
             ELSE [ui EXCEPT !.frames = Some(out.value), !.isLoading = FALSE, !.progress = Null]
    ELSE [ui EXCEPT !.progress = IF IsNull(LastProgressSince(r1, n))
                                 THEN @ ELSE LastProgressSince(r1, n)]

\* handleGenerateAnimation while and after it awaits the run, which moved to
\* r1 and whose log had length n before: setProgress for each callback, and on
\* settlement the try / catch / finally of lines 111-125
GenerateUiResume(ui, n, r1) ==
    IF r1.pc = "idle"
    THEN LET out == Get(r1.result)
         IN  [ui EXCEPT !.frames = IF out.threw THEN @ ELSE Some(out.value),
                        !.error = IF out.threw
                                  THEN Some(ErrorText(out.exc, <<"An unknown error occurred.">>))
                                  ELSE @,
                        !.isLoading = FALSE,
                        !.progress = Null]
    ELSE [ui EXCEPT !.progress = IF IsNull(LastProgressSince(r1, n))
                                 THEN @ ELSE LastProgressSince(r1, n)]

SetGenerateUi(ui) ==
    /\ frames' = ui.frames
    /\ error' = ui.error
    /\ isLoading' = ui.isLoading
    /\ progress' = ui.progress

\* variant in which the controls are never disabled
ControlsAlwaysEnabled == TRUE

\* the controls `disabled={isLoading || isEnhancing}`
ControlsEnabled == ~(isLoading \/ isEnhancing)

\* ------------------------------------------------------- direct calls
\* a caller other than the App invokes the exported generateAnimationFrames
CallGenerate(motionPrompt, fc) ==
    /\ driver = "direct"
    /\ run.pc = "idle"
    /\ LET ai == getAI(aiInstance, apiKey)
       IN  /\ aiInstance' = ai.aiInstance
           /\ constructed' = constructed + ai.built
           /\ run' = generateAnimationFramesStart(motionPrompt, fc, variant, ai)
    /\ download' = Null
    /\ UNCHANGED <<apiKey, variant, driver, enhance, uiVars, playVars>>

\* enhancePrompt from its entry to the await of its remote call
enhancePromptStart(e, ai) ==
    IF ai.threw
    THEN [e EXCEPT !.pc = "idle", !.calls = 0, !.response = "none",
                   !.result = Some(Thrown(Exception(TRUE, ConfigError)))]
    ELSE [e EXCEPT !.pc = "awaiting", !.calls = 1, !.response = "none", !.result = Null]

\* a caller other than the App invokes the exported enhancePrompt
CallEnhance(text) ==
    /\ driver = "direct"
    /\ enhance.pc = "idle"
    /\ LET ai == getAI(aiInstance, apiKey)
       IN  /\ aiInstance' = ai.aiInstance
           /\ constructed' = constructed + ai.built
           /\ enhance' = enhancePromptStart(enhance, ai)
    /\ download' = Null
    /\ UNCHANGED <<apiKey, variant, driver, run, uiVars, playVars>>

\* ------------------------------------------------------- App handlers
\* typing in the prompt textarea
SetPrompt(text) ==
    /\ driver = "App"
    /\ ControlsEnabled
    /\ prompt' = text
    /\ download' = Null
    /\ UNCHANGED <<apiKey, variant, driver, svcVars, frameCount, frames, isLoading,
                   isEnhancing, error, progress, playVars>>

\* moving the frame-count slider
SetFrameCount(n) ==
    /\ driver = "App"
    /\ ~isLoading
    /\ frameCount' = n
    /\ download' = Null
    /\ UNCHANGED <<apiKey, variant, driver, svcVars, prompt, frames, isLoading,
                   isEnhancing, error, progress, playVars>>

\* handleEnhancePrompt up to its await (or to its end when enhancePrompt throws at once)
handleEnhancePrompt ==
    /\ driver = "App"
    /\ ControlsEnabled
    /\ IF Trim(prompt) = <<>>
       THEN /\ error' = Some(<<"Please enter a prompt to enhance.">>)
            /\ UNCHANGED <<svcVars, isEnhancing>>
       ELSE LET ai == getAI(aiInstance, apiKey)
                e1 == enhancePromptStart(enhance, ai)
            IN  /\ aiInstance' = ai.aiInstance
                /\ constructed' = constructed + ai.built
                /\ enhance' = e1
                /\ run' = run
                /\ isEnhancing' = (e1.pc # "idle")
                /\ error' = IF e1.pc = "idle"
                            THEN Some(ErrorText(Get(e1.result).exc,
                                     <<"An unknown error occurred while enhancing the prompt.">>))
                            ELSE Null
    /\ download' = Null
    /\ UNCHANGED <<apiKey, variant, driver, prompt, frameCount, frames, isLoading, progress, playVars>>

\* the remote call of enhancePrompt settles; in the App, handleEnhancePrompt resumes
EnhanceRespond(resp) ==
    /\ enhance.pc = "awaiting"
    /\ LET out == enhancePromptResult(resp)
       IN  /\ enhance' = [enhance EXCEPT !.pc = "idle", !.response = resp.kind, !.result = Some(out)]
           /\ IF driver = "App"
              THEN /\ prompt' = IF out.threw THEN prompt ELSE out.value
                   /\ error' = IF out.threw
                               THEN Some(ErrorText(out.exc,
                                        <<"An unknown error occurred while enhancing the prompt.">>))
                               ELSE error
                   /\ isEnhancing' = FALSE
              ELSE UNCHANGED <<prompt, error, isEnhancing>>
    /\ download' = Null
    /\ UNCHANGED <<apiKey, variant, driver, aiInstance, constructed, run,
                   frameCount, frames, isLoading, progress, playVars>>

\* handleGenerateAnimation up to its await (or to its end when the run settles at once)
handleGenerateAnimation ==
    /\ driver = "App"
    /\ ControlsEnabled
    /\ IF Trim(prompt) = <<>>
       THEN /\ error' = Some(<<"Please enter a prompt describing a motion.">>)
            /\ UNCHANGED <<svcVars, frames, isLoading, progress>>
       ELSE LET ai == getAI(aiInstance, apiKey)
                r1 == generateAnimationFramesStart(prompt, frameCount, variant, ai)
            IN  /\ aiInstance' = ai.aiInstance
                /\ constructed' = constructed + ai.built
                /\ run' = r1
                /\ enhance' = enhance
                /\ SetGenerateUi(GenerateUiResume(GenerateUiStart(GenerateUi), 0, r1))
    /\ player' = AnimationPlayer(player, <<frames, playbackSpeed>>, frames', isLoading', playbackSpeed)
    /\ download' = Null
    /\ UNCHANGED <<apiKey, variant, driver, prompt, frameCount, isEnhancing, playbackSpeed, exportVars>>

\* ------------------------------------------------------- remote responses
\* the planning call settles and the run goes on to its next await or its end
PlanRespond(resp) ==
    /\ run.pc = "planning"
    /\ LET r1 == OnPlanResponse(run, resp, variant)
       IN  /\ run' = r1
           /\ IF driver = "App"
              THEN SetGenerateUi(GenerateUiResume(GenerateUi, Len(run.log), r1))
              ELSE UNCHANGED <<frames, error, isLoading, progress>>
    /\ player' = AnimationPlayer(player, <<frames, playbackSpeed>>, frames', isLoading', playbackSpeed)
    /\ download' = Null
    /\ UNCHANGED <<apiKey, variant, driver, aiInstance, constructed, enhance,
                   prompt, frameCount, isEnhancing, playbackSpeed, exportVars>>

\* the image call of the current frame settles and the run goes on
FrameRespond(resp) ==
    /\ run.pc = "frame"
    /\ LET r1 == OnFrameResponse(run, resp, variant)
       IN  /\ run' = r1
           /\ IF driver = "App"
              THEN SetGenerateUi(GenerateUiResume(GenerateUi, Len(run.log), r1))
              ELSE UNCHANGED <<frames, error, isLoading, progress>>
    /\ player' = AnimationPlayer(player, <<frames, playbackSpeed>>, frames', isLoading', playbackSpeed)
    /\ download' = Null
    /\ UNCHANGED <<apiKey, variant, driver, aiInstance, constructed, enhance,
                   prompt, frameCount, isEnhancing, playbackSpeed, exportVars>>

Next ==
    \/ \E t \in Texts, fc \in FrameCountArgs : CallGenerate(t, fc)
    \/ \E t \in Texts : CallEnhance(t)
    \/ \E t \in Texts : SetPrompt(t)
    \/ \E n \in SliderValues : SetFrameCount(n)
    \/ handleEnhancePrompt
    \/ \E resp \in EnhanceResponses : EnhanceRespond(resp)
    \/ handleGenerateAnimation
    \/ \E resp \in PlanResponses : PlanRespond(resp)
    \/ \E resp \in GenResponses : FrameRespond(resp)

Spec == Init /\ [][Next]_vars

\* ------------------------------------------------------- playback and export
\* moving the playback-speed slider (never disabled)
SetPlaybackSpeed(s) ==
    /\ driver = "App"
    /\ playbackSpeed' = s
    /\ player' = AnimationPlayer(player, <<frames, playbackSpeed>>, frames, isLoading, s)
    /\ download' = Null
    /\ UNCHANGED <<apiKey, variant, driver, svcVars, uiVars, exportVars>>

\* an interval timer of the player fires
Tick ==
    /\ player.mounted
    /\ \E k \in 1..Len(player.timers) :
           player' = [player EXCEPT !.currentFrame = NextFrame(@, player.timers[k].length)]
    /\ download' = Null
    /\ UNCHANGED <<apiKey, variant, driver, svcVars, uiVars, playbackSpeed, exportVars>>

\* the pre-fetch of the worker script resolves
WorkerFetched ==
    /\ driver = "App"
    /\ gifWorkerUrl = "pending"
    /\ gifWorkerUrl' = "ready"
    /\ download' = Null
    /\ UNCHANGED <<apiKey, variant, driver, svcVars, uiVars, playbackSpeed, player,
                   isCreatingGif, export>>

\* the pre-fetch of the worker script fails
WorkerFetchFailed ==
    /\ driver = "App"
    /\ gifWorkerUrl = "pending"
    /\ gifWorkerUrl' = "failed"
    /\ error' = Some(WorkerFailedMessage)
    /\ download' = Null
    /\ UNCHANGED <<apiKey, variant, driver, svcVars, prompt, frameCount, frames, isLoading,
                   isEnhancing, progress, playbackSpeed, player, isCreatingGif, export>>

\* handleDownload up to its await; the button is rendered while
\* `frames && !isLoading`
handleDownload ==
    /\ driver = "App"
    /\ PlayerShown(frames, isLoading)
    /\ DownloadEnabled
    /\ IF Get(frames) = <<>> \/ gifWorkerUrl # "ready"
       THEN /\ error' = Some(IF gifWorkerUrl = "ready"
                             THEN <<"No frames to create a GIF from.">>
                             ELSE <<"GIF downloader is not ready.">>)
            /\ UNCHANGED <<isCreatingGif, export>>
       ELSE /\ isCreatingGif' = TRUE
            /\ error' = Null
            /\ export' = StartExport(Get(frames), playbackSpeed)
    /\ download' = Null
    /\ UNCHANGED <<apiKey, variant, driver, svcVars, prompt, frameCount, frames, isLoading,
                   isEnhancing, progress, playbackSpeed, player, gifWorkerUrl>>

\* an image of the export loads or fails to load, and handleDownload resumes
\* when that settles its Promise.all: lines 156-172, or the catch
ImageSettles(i, ok) ==
    /\ export.pc = "loading"
    /\ i \in 1..Len(export.loads)
    /\ export.loads[i] = "pending"
    /\ LET e1 == LoadSettled(export, i, ok)
       IN  IF AwaitAll(e1) = "rejected"
           THEN /\ export' = IdleExport
                /\ error' = Some(LoadFailedMessage)
                /\ isCreatingGif' = FALSE
           ELSE /\ export' = IF AwaitAll(e1) = "resolved"
                             THEN [e1 EXCEPT !.pc = "rendering",
                                             !.encoder = AddFrames(e1, playbackSpeed)]
                             ELSE e1
                /\ UNCHANGED <<error, isCreatingGif>>
    /\ download' = Null
    /\ UNCHANGED <<apiKey, variant, driver, svcVars, prompt, frameCount, frames, isLoading,
                   isEnhancing, progress, playbackSpeed, player, gifWorkerUrl>>

\* the encoder reports 'finished': the file is downloaded
GifFinished ==
    /\ export.pc = "rendering"
    /\ download' = Some(export.encoder)
    /\ isCreatingGif' = FALSE
    /\ export' = IdleExport
    /\ UNCHANGED <<apiKey, variant, driver, svcVars, uiVars, playbackSpeed, player, gifWorkerUrl>>

\* The App as the user of the player and the export meets it: linked with
\* services/imageService.ts, the credential set, the prompt left as it is.
\* The planner answers with a storyboard of the length asked for or its call
\* is rejected; an image call returns one image or is rejected.
InitPlayback ==
    /\ Init
    /\ driver = "App"
    /\ variant = "storyboard"
    /\ apiKey

GoodStoryboard(n) ==
    PlanResponse("array", <<>>, [k \in 1..n |-> [isString |-> TRUE, text |-> <<"p">>]])
PlaybackPlanResponses(fc) == {PlanResponse("reject", <<>>, <<>>), GoodStoryboard(fc)}
PlaybackGenResponses == {GenReject, GenOk(<<InlinePart(<<"A">>)>>)}

NextPlayback ==
    \/ \E n \in SliderValues : SetFrameCount(n)
    \/ handleGenerateAnimation
    \/ \E resp \in PlaybackPlanResponses(run.frameCount) : PlanRespond(resp)
    \/ \E resp \in PlaybackGenResponses : FrameRespond(resp)
    \/ \E s \in PlaybackSpeeds : SetPlaybackSpeed(s)
    \/ Tick
    \/ WorkerFetched
    \/ WorkerFetchFailed
    \/ handleDownload
    \/ \E i \in 1..(MaxFrameCount + 1), ok \in BOOLEAN : ImageSettles(i, ok)
    \/ GifFinished

SpecPlayback == InitPlayback /\ [][NextPlayback]_vars

\* ------------------------------------------------------- reading a run
Finished == run.pc = "idle" /\ ~IsNull(run.result)
Result == Get(run.result)
EventsOf(kind) == {k \in 1..Len(run.log) : run.log[k].ev = kind}
EventsOfFrame(kind, i) == {k \in EventsOf(kind) : run.log[k].frame = i}
RemoteCalls == EventsOf("planStart") \cup EventsOf("genStart")
\* the image call whose settlement is log entry k failed
FailedGenEnd(k) == run.log[k].ev = "genEnd" /\ IsNull(run.log[k].image)

\* ------------------------------------------------------- C1
\* C1: a finished run of generateAnimationFrames for a frame count N >= 1
\* either threw an error or returned a sequence of exactly N frames.
C1_ExactLengthOrError ==
    (Finished /\ run.frameCount >= 1) =>
        (Result.threw \/ Len(Result.value) = run.frameCount)

\* a run for three frames returned its sequence
C1_Witness ==
    /\ Finished
    /\ run.frameCount = 3
    /\ ~Result.threw
    /\ Len(Result.value) = 3
    /\ Cardinality(EventsOf("genEnd")) = 3

\* ------------------------------------------------------- C2
\* C2: in every run the image call for frame 1 carries no reference, and the
\* call for every frame i >= 2 carries as reference the payload that the call
\* for frame i-1 returned (which was settled before, with an image).
C2_ReferenceChain ==
    \A k \in EventsOf("genStart") :
        LET i == run.log[k].frame
        IN  IF i = 1
            THEN IsNull(run.log[k].ref)
            ELSE /\ ~IsNull(run.log[k].ref)
                 /\ \E j \in EventsOfFrame("genEnd", i - 1) :
                        /\ j < k
                        /\ ~IsNull(run.log[j].image)
                        /\ Get(run.log[k].ref).data = Get(run.log[j].image)
                        /\ Get(run.log[k].ref) = base64ToPart(run.allFrames[i - 1]).value

\* the call for frame 3 was issued after frames 1 and 2 came back with
\* different images
C2_Witness ==
    /\ EventsOfFrame("genStart", 3) # {}
    /\ \E j1 \in EventsOfFrame("genEnd", 1), j2 \in EventsOfFrame("genEnd", 2) :
           run.log[j1].image # run.log[j2].image

\* ------------------------------------------------------- C3
\* C3 as stated: a finished run for a frame count below 1 returned the empty
\* sequence and made no remote call.
C3_Original ==
    (Finished /\ run.frameCount < 1) =>
        (~Result.threw /\ Result.value = <<>> /\ RemoteCalls = {})

\* C3 amended: a run for a frame count below 1 makes no remote call; it
\* returns the empty sequence when getAI yields a client handle, and throws
\* the configuration error when the credential is absent.
C3_ShortCircuit ==
    (Finished /\ run.frameCount < 1) =>
        /\ RemoteCalls = {}
        /\ aiInstance => (~Result.threw /\ Result.value = <<>>)
        /\ ~aiInstance => (Result.threw /\ Result.exc.message = ConfigError)

\* a run for frame count 0 returned the empty sequence
C3_Witness ==
    /\ Finished
    /\ run.frameCount = 0
    /\ ~Result.threw
    /\ Result.value = <<>>

\* ------------------------------------------------------- C4
\* C4: frames are generated strictly in sequence: the call for frame i is
\* issued right after the progress message "Generating frame i of N...", and
\* only after the calls for all earlier frames have settled; no two image
\* calls are in flight together.
C4_Sequential ==
    /\ \A k \in EventsOf("genStart") :
           LET i == run.log[k].frame
           IN  /\ k > 1
               /\ run.log[k - 1].ev = "progress"
               /\ run.log[k - 1].text = GeneratingFrameMessage(i, run.frameCount)
               /\ \A h \in 1..(i - 1) : \E j \in EventsOfFrame("genEnd", h) : j < k
               /\ \A j \in EventsOf("genStart") :
                      j < k => \E e \in EventsOfFrame("genEnd", run.log[j].frame) : j < e /\ e < k
    /\ \A k \in EventsOf("genEnd") :
           k > 1 /\ run.log[k - 1].ev = "genStart" /\ run.log[k - 1].frame = run.log[k].frame

\* the call for frame 3 of 3 is in flight
C4_Witness ==
    /\ run.pc = "frame"
    /\ run.frameCount = 3
    /\ run.i = 3
    /\ run.log[Len(run.log)].ev = "genStart"

\* ------------------------------------------------------- C5
\* C5: when the image call for a frame fails, the run ends there: that
\* settlement is the last thing the run did, the caller gets an error and no
\* frame sequence, and no frame is ever requested twice within a run.
C5_FailFast ==
    /\ \A k \in 1..Len(run.log) :
           FailedGenEnd(k) =>
               /\ k = Len(run.log)
               /\ Finished
               /\ Result.threw
               /\ Result.value = <<>>
    /\ \A i \in 1..run.frameCount : Cardinality(EventsOfFrame("genStart", i)) <= 1
    /\ (Finished /\ Result.threw /\ driver = "App") => IsNull(frames)

\* frame 2 of 3 failed after frame 1 had been produced
C5_Witness ==
    /\ Finished
    /\ run.frameCount = 3
    /\ Len(run.allFrames) = 1
    /\ FailedGenEnd(Len(run.log))
    /\ run.log[Len(run.log)].frame = 2

\* ------------------------------------------------------- C6
\* the planner's response recorded at log entry k failed validation
WrongCount(k) ==
    run.log[k].ev = "planEnd" /\ run.log[k].text[1] = "array" /\ run.log[k].frame # run.frameCount
BadDescription(k) ==
    /\ run.log[k].ev = "planEnd"
    /\ run.log[k].text[1] = "array"
    /\ run.log[k].frame = run.frameCount
    /\ Len(run.log[k].text) = 2
PlanCallFailed(k) ==
    run.log[k].ev = "planEnd" /\ run.log[k].text[1] \in {"reject", "rejectNonError"}
PlanFailed(k) ==
    run.log[k].ev = "planEnd" /\ (run.log[k].text[1] # "array" \/ WrongCount(k) \/ BadDescription(k))

\* C6: when the planner's array has the wrong length, the error the caller
\* gets names the expected and the actual count; when an element's frame
\* description is empty or not a string, it names the missing field.
C6_DescriptiveError ==
    \A k \in 1..Len(run.log) :
        /\ WrongCount(k) =>
               /\ Finished /\ Result.threw
               /\ Includes(Result.exc.message, WrongCountError(run.frameCount, run.log[k].frame))
        /\ BadDescription(k) =>
               /\ Finished /\ Result.threw
               /\ Includes(Result.exc.message, MissingDescriptionError)

\* ------------------------------------------------------- C7
\* C7: in the storyboard variant the planning call is made at most once per
\* run, and exactly once in every run that got past getAI and the frame-count
\* guard; when it fails or its response fails validation the run ends there
\* with an error and no image call is ever made.
C7_PlanFailureAbortsRun ==
    variant = "storyboard" =>
        /\ Cardinality(EventsOf("planStart")) <= 1
        /\ Cardinality(EventsOf("planEnd")) <= 1
        /\ run.log # <<>> =>
               /\ Cardinality(EventsOf("planStart")) = 1
               /\ run.log[2].ev = "planStart"
        /\ EventsOf("genStart") # {} =>
               \E k \in EventsOf("planEnd") : ~PlanFailed(k)
        /\ \A k \in 1..Len(run.log) :
               PlanFailed(k) =>
                   /\ k = Len(run.log)
                   /\ Finished
                   /\ Result.threw
                   /\ EventsOf("genStart") = {}

\* a planner response of the right length with a bad frame description ended
\* the run
C7_Witness ==
    /\ variant = "storyboard"
    /\ Finished
    /\ run.frameCount = 2
    /\ run.log # <<>>
    /\ BadDescription(Len(run.log))
    /\ Result.threw

\* ------------------------------------------------------- C8
HasInstruction(k, tok) == Contains(run.log[k].text, tok)

\* C8 as stated: in every run with N > 1 the prompt of frame N, and only that
\* one, tells the model to conclude the motion; frame 1 gets the
\* scene-establishing prompt and the frames between get the intermediate one.
C8_Original ==
    run.frameCount > 1 =>
        \A k \in EventsOf("genStart") :
            LET i == run.log[k].frame
            IN  /\ HasInstruction(k, ConcludeInstruction) <=> (i = run.frameCount)
                /\ HasInstruction(k, FirstFrameInstruction) <=> (i = 1)
                /\ (1 < i /\ i < run.frameCount) =>
                       (HasInstruction(k, NextPoseInstruction)
                            \/ HasInstruction(k, StoryboardStepInstruction))

\* C8 amended: that holds of the inline variant.  In the storyboard variant
\* frame 1 gets the scene-establishing prompt, every later frame, the last
\* included, gets the storyboard next-step prompt with its own storyboard
\* entry, and no frame is told to conclude the motion.
C8_PromptKinds ==
    run.frameCount > 1 =>
        \A k \in EventsOf("genStart") :
            LET i == run.log[k].frame
            IN  /\ HasInstruction(k, FirstFrameInstruction) <=> (i = 1)
                /\ variant = "inline" =>
                       /\ HasInstruction(k, ConcludeInstruction) <=> (i = run.frameCount)
                       /\ HasInstruction(k, NextPoseInstruction) <=> (1 < i /\ i < run.frameCount)
                /\ variant = "storyboard" =>
                       /\ ~HasInstruction(k, ConcludeInstruction)
                       /\ HasInstruction(k, StoryboardStepInstruction) <=> (i > 1)
                       /\ Includes(run.log[k].text, run.storyboard[i])

\* the inline variant issued the call for the last of three frames
C8_Witness ==
    /\ variant = "inline"
    /\ run.frameCount = 3
    /\ EventsOfFrame("genStart", 2) # {}
    /\ EventsOfFrame("genStart", 3) # {}

\* ------------------------------------------------------- C9
GenerationPrefix == "Failed to generate animation: "
RunMessage == Result.exc.message

\* a failed refine call surfaces the enhancement error, a failed planning call
\* the storyboard error wrapped by the run
RefineAndPlanFailuresNamed ==
    /\ enhance.response = "reject" =>
           /\ enhance.pc = "idle"
           /\ Get(enhance.result).threw
           /\ Get(enhance.result).exc.message = EnhanceError
    /\ \A k \in 1..Len(run.log) :
           PlanCallFailed(k) =>
               /\ Finished /\ Result.threw
               /\ RunMessage = <<GenerationPrefix>> \o StoryboardGenericError

\* C9 as stated: every remote-call failure ends the run with an error whose
\* text identifies the failed phase; for an image call, the failing frame
\* (here: through that frame's prompt, which states its number).
C9_Original ==
    /\ RefineAndPlanFailuresNamed
    /\ \A k \in 1..Len(run.log) :
           FailedGenEnd(k) =>
               /\ Finished /\ Result.threw
               /\ Includes(RunMessage, run.currentFramePrompt)

C9_StatePart ==
    /\ RefineAndPlanFailuresNamed
    /\ \A k \in 1..Len(run.log) :
           FailedGenEnd(k) =>
               /\ k = Len(run.log)
               /\ Finished /\ Result.threw
               /\ IF run.log[k].text = <<"rejectNonError">>
                  THEN RunMessage = UnknownGenerationError
                  ELSE Head(RunMessage) = GenerationPrefix
               /\ run.log[k].text = <<"ok">> <=>
                      Includes(RunMessage, ImageGenerationFailed(run.currentFramePrompt))

\* the step in which a remote call of the App's run or refinement fails
C9_UiStep ==
    driver = "App" =>
        /\ (run.pc # "idle" /\ run'.pc = "idle" /\ Get(run'.result).threw) =>
               /\ error' = Some(Get(run'.result).exc.message)
               /\ ~isLoading'
               /\ IsNull(frames')
        /\ (enhance.pc = "awaiting" /\ enhance'.pc = "idle" /\ Get(enhance'.result).threw) =>
               /\ error' = Some(EnhanceError)
               /\ ~isEnhancing'

\* C9 amended: every remote-call failure ends the run with an error that
\* reaches the caller, and in the App the error display, in the same step.
\* A failed refine call gives the enhancement error and a failed planning
\* call the wrapped storyboard error.  A failed image call gives "Failed to
\* generate animation: " followed by the underlying message (the unknown-error
\* text for a non-Error rejection); it names the failing frame, through the
\* quoted prompt, exactly when the response carried no inline image.
C9_FailureReachesCaller == [] C9_StatePart /\ [][C9_UiStep]_vars

\* in the App the image call for frame 2 was rejected and the wrapped
\* message is on display
C9_Witness ==
    /\ driver = "App"
    /\ Finished
    /\ run.log # <<>>
    /\ FailedGenEnd(Len(run.log))
    /\ run.log[Len(run.log)].frame = 2
    /\ run.log[Len(run.log)].text = <<"reject">>
    /\ error = Some(<<GenerationPrefix>> \o SdkMessage)

\* ------------------------------------------------------- C10
ConfigFailure == Thrown(Exception(TRUE, ConfigError))

\* C10: with the credential absent every call of enhancePrompt or
\* generateAnimationFrames settles with the configuration error, no remote
\* call and no progress report is ever made, and the client handle stays
\* null; the client is constructed at most once, exactly when the handle is
\* non-null.
C10_ConfigurationError ==
    /\ constructed <= 1
    /\ aiInstance <=> (constructed = 1)
    /\ ~apiKey =>
           /\ ~aiInstance
           /\ run.pc = "idle" /\ run.log = <<>>
           /\ enhance.pc = "idle" /\ enhance.calls = 0
           /\ ~IsNull(run.result) => Result = ConfigFailure
           /\ ~IsNull(enhance.result) => Get(enhance.result) = ConfigFailure

\* without a credential both functions were called and both failed
C10_Witness ==
    /\ ~apiKey
    /\ ~IsNull(run.result)
    /\ ~IsNull(enhance.result)
    /\ run.frameCount = 2

\* ------------------------------------------------------- C11
\* the settled refiner call gave no usable text: it was rejected, its
\* response had no text, or its text was empty once trimmed
NoUsableText ==
    /\ enhance.pc = "idle"
    /\ enhance.calls = 1
    /\ \/ enhance.response \in {"reject", "noText"}
       \/ /\ enhance.response = "ok"
          /\ ~Get(enhance.result).threw
          /\ Get(enhance.result).value = <<>>

C11_StatePart ==
    /\ enhance.calls <= 1
    /\ enhance.pc = "awaiting" => enhance.calls = 1
    /\ NoUsableText =>
           /\ Get(enhance.result).threw
           /\ Get(enhance.result).exc.message = EnhanceError

\* the step in which the App's refiner call settles without usable text
C11_UiStep ==
    (driver = "App" /\ enhance.pc = "awaiting" /\ enhance'.pc = "idle"
        /\ (Get(enhance'.result).threw \/ Get(enhance'.result).value = <<>>)) =>
        /\ prompt' = prompt
        /\ error' = Some(EnhanceError)

\* C11 as stated: an invocation of the prompt refiner makes one remote call,
\* and whenever that call fails or returns no usable text (missing or empty)
\* it throws the enhancement-failed error, and the App shows that error and
\* leaves the prompt as the user typed it.
C11_RefinerFailure == [] C11_StatePart /\ [][C11_UiStep]_vars

\* ------------------------------------------------------- C15
\* the log entries that report completion
CompleteEvents == {k \in EventsOf("progress") : run.log[k].text = CompleteMessage}

\* C15: a run for N >= 1 frames that succeeded reported "Generation
\* complete!" exactly once, as the last thing it did, right after the image
\* call of frame N had settled with an image; a run that has not finished, or
\* that failed, has not reported it.
C15_CompleteLast ==
    /\ Cardinality(CompleteEvents) <= 1
    /\ \A k \in CompleteEvents :
           /\ Finished /\ ~Result.threw
           /\ k = Len(run.log)
           /\ k > 1
           /\ run.log[k - 1].ev = "genEnd"
           /\ run.log[k - 1].frame = run.frameCount
           /\ ~IsNull(run.log[k - 1].image)
           /\ \A j \in EventsOf("genStart") \cup EventsOf("genEnd") \cup EventsOf("progress") : j <= k
    /\ (Finished /\ ~Result.threw /\ run.frameCount >= 1) => Cardinality(CompleteEvents) = 1
    /\ (Finished /\ Result.threw) => CompleteEvents = {}

\* a run for three frames succeeded and its last report is the completion
C15_Witness ==
    /\ Finished
    /\ ~Result.threw
    /\ run.frameCount = 3
    /\ run.log[Len(run.log)] = ProgressEvent(CompleteMessage)
    /\ Cardinality(EventsOf("genEnd")) = 3

\* ------------------------------------------------------- C16
GenerationInFlight == run.pc # "idle"
RefinementInFlight == enhance.pc = "awaiting"

C16_StatePart ==
    driver = "App" =>
        /\ isLoading <=> GenerationInFlight
        /\ isEnhancing <=> RefinementInFlight
        /\ ~(GenerationInFlight /\ RefinementInFlight)
        /\ (GenerationInFlight \/ RefinementInFlight) => ~ControlsEnabled

\* a run in flight is only ever carried on or settled, never replaced or
\* dropped; likewise a refinement in flight
C16_UiStep ==
    driver = "App" =>
        /\ GenerationInFlight =>
               /\ run'.motionPrompt = run.motionPrompt
               /\ run'.frameCount = run.frameCount
               /\ Len(run'.log) >= Len(run.log)
               /\ SubSeq(run'.log, 1, Len(run.log)) = run.log
               /\ run'.pc = "idle" => ~IsNull(run'.result)
               /\ enhance' = enhance
        /\ RefinementInFlight =>
               /\ enhance'.calls = enhance.calls
               /\ enhance'.pc = "idle" => ~IsNull(enhance'.result)
               /\ run' = run

\* C16: in the App a generation run is in flight exactly while isLoading and
\* a refinement exactly while isEnhancing; the two are never in flight
\* together, both controls are disabled while either is, and no step starts
\* a second run or refinement, or drops the one in flight, before it settled.
C16_OneAtATime == [] C16_StatePart /\ [][C16_UiStep]_vars

\* the App's run awaits the image call of its second frame
C16_Witness ==
    /\ driver = "App"
    /\ run.pc = "frame"
    /\ run.i = 2
    /\ isLoading
    /\ ~ControlsEnabled

\* ------------------------------------------------------- C17
\* C17: in the App the progress message is non-null only while a generation
\* run is in flight and the loading flag is set; once the run has settled,
\* with frames or with an error, the loading flag is false and the progress
\* message is null.
C17_ProgressOnlyWhileLoading ==
    driver = "App" =>
        /\ ~IsNull(progress) => (isLoading /\ GenerationInFlight)
        /\ ~GenerationInFlight => (~isLoading /\ IsNull(progress))

\* the App's run failed at its second frame, after progress had been shown
C17_Witness ==
    /\ driver = "App"
    /\ Finished
    /\ Result.threw
    /\ Len(run.allFrames) = 1
    /\ EventsOf("progress") # {}
    /\ ~isLoading
    /\ IsNull(progress)

\* ------------------------------------------------------- C18
\* C18: in the App the frame sequence is null from the start of a run until
\* the run succeeds, and null after a failed run; whenever it is non-null it
\* is the whole result of the most recent run, which succeeded and returned
\* as many frames as were asked for.
C18_FramesOfLastSuccess ==
    driver = "App" =>
        /\ isLoading => IsNull(frames)
        /\ (Finished /\ Result.threw) => IsNull(frames)
        /\ ~IsNull(frames) =>
               /\ Finished
               /\ ~Result.threw
               /\ Get(frames) = Result.value
               /\ Len(Get(frames)) = run.frameCount

\* the App shows the three frames of a run that succeeded
C18_Witness ==
    /\ driver = "App"
    /\ ~IsNull(frames)
    /\ Len(Get(frames)) = 3
    /\ Get(frames)[1] # Get(frames)[2]
    /\ ~isLoading

\* ------------------------------------------------------- C14
\* C14: the player is mounted exactly while the App shows frames; at most one
\* interval timer is alive, none while the player is not mounted or shows
\* fewer than two frames, and one while it shows two or more; the timer alive
\* has the period 1100 - playbackSpeed for the speed now set and cycles over
\* the frames now shown, so every change of frames or speed replaced it.
C14_OneTimer ==
    driver = "App" =>
        /\ player.mounted <=> PlayerShown(frames, isLoading)
        /\ Len(player.timers) <= 1
        /\ ~player.mounted => player.timers = <<>>
        /\ player.mounted =>
               /\ Len(Get(frames)) < 2 => player.timers = <<>>
               /\ Len(Get(frames)) >= 2 =>
                      player.timers = <<Interval(Get(frames), playbackSpeed)>>
        /\ \A k \in 1..Len(player.timers) :
               /\ player.timers[k].period = 1100 - playbackSpeed
               /\ player.timers[k].period > 0
               /\ player.timers[k].length >= 2

\* three frames play at the fastest speed, set after the default, and the
\* timer has fired twice
C14_Witness ==
    /\ player.mounted
    /\ playbackSpeed = 1000
    /\ player.timers = <<[period |-> 100, length |-> 3]>>
    /\ player.currentFrame = 2

\* ------------------------------------------------------- C19
\* C19: whenever the App shows frames, the player's currentFrame is an index
\* of the sequence shown: 0 <= currentFrame < length.
C19_ValidIndex ==
    PlayerShown(frames, isLoading) =>
        /\ player.mounted
        /\ 0 <= player.currentFrame
        /\ player.currentFrame < Len(Get(frames))

\* two frames are shown, the second of them on display, while an export of
\* the four frames shown before is still loading
C19_Witness ==
    /\ player.mounted
    /\ Len(Get(frames)) = 2
    /\ player.currentFrame = 1
    /\ export.pc = "loading"
    /\ Len(export.frames) = 4

\* ------------------------------------------------------- C12
\* what the encoder must hold for the export e: one entry per frame, the
\* image of frame k at place k, all with the delay 1100 - the speed e closed over
ExpectedFile(e) ==
    [k \in 1..Len(e.frames) |->
        [index |-> k, src |-> e.frames[k], delay |-> 1100 - e.speed]]

C12_StatePart ==
    /\ export.pc = "loading" => export.encoder = <<>>
    /\ export.pc = "rendering" =>
           /\ \A k \in 1..Len(export.loads) : export.loads[k] = "loaded"
           /\ Len(export.encoder) = Len(export.frames)
           /\ export.encoder = ExpectedFile(export)

C12_Step ==
    /\ (export.pc = "idle" /\ export'.pc # "idle") =>
           /\ export'.frames = Get(frames)
           /\ export'.speed = playbackSpeed
    /\ ~IsNull(download') =>
           /\ export.pc = "rendering"
           /\ download' = Some(export.encoder)

\* C12: when all N images of an export have loaded, in whatever order, the
\* encoder holds exactly N frames in the order of the sequence, each with the
\* delay 1100 - playbackSpeed for the speed at the request; nothing is handed
\* to the encoder before, and a file is downloaded only in the step in which
\* the encoder reports 'finished', and it is what the encoder was given.
C12_ExportInOrder == [] C12_StatePart /\ [][C12_Step]_vars

\* three frames were handed to the encoder after a later image had loaded
\* before an earlier one
C12_Witness ==
    /\ export.pc = "rendering"
    /\ export.outOfOrder
    /\ Len(export.encoder) = 3
    /\ export.encoder[3].index = 3

\* ------------------------------------------------------- C13
C13_StatePart ==
    /\ \A k \in 1..Len(export.loads) : export.loads[k] # "failed"
    /\ export.pc = "idle" => export.encoder = <<>>

\* the step in which an image of the export fails to load
C13_Step ==
    (export.pc = "loading" /\ export'.pc = "idle") =>
        /\ export.encoder = <<>>
        /\ export'.encoder = <<>>
        /\ IsNull(download')
        /\ error' = Some(LoadFailedMessage)
        /\ ~isCreatingGif'

\* C13: an export leaves its loading phase without rendering only when an
\* image failed to load, and in that step nothing has been or is handed to
\* the encoder, nothing is downloaded, the error 'Failed to create GIF:
\* Failed to load an image frame.' is shown and isCreatingGif is false; no
\* export goes on with a failed image.
C13_ExportFailsWhole == [] C13_StatePart /\ [][C13_Step]_vars

\* an image of an export failed to load: the error is shown and the flag is
\* down, while the frames are still on display
C13_Witness ==
    /\ error = Some(LoadFailedMessage)
    /\ ~isCreatingGif
    /\ export.pc = "idle"
    /\ IsNull(download)
    /\ PlayerShown(frames, isLoading)

\* ------------------------------------------------------- C20
ExportInFlight == export.pc # "idle"

C20_Step ==
    /\ (~ExportInFlight /\ ExportInFlight') =>
           /\ ~isCreatingGif
           /\ export'.frames = Get(frames)
           /\ export'.speed = playbackSpeed
    /\ (ExportInFlight /\ ExportInFlight') =>
           /\ export'.frames = export.frames
           /\ export'.speed = export.speed
           /\ \A k \in 1..Len(export.loads) :
                  export.loads[k] # "pending" => export'.loads[k] = export.loads[k]
           /\ export.pc = "rendering" => export' = export
    /\ ~IsNull(download') =>
           /\ ExportInFlight
           /\ ~ExportInFlight'
           /\ download' = Some(ExpectedFile(export))

\* C20: an export is in flight exactly while isCreatingGif, and none is
\* started while one is; the export in flight keeps the frames and the speed
\* that were on display when it was requested, whatever runs, speed changes
\* or timer ticks happen meanwhile, and the file downloaded holds exactly
\* those frames with the delay for that speed.
C20_ExportIsolated == [] (ExportInFlight <=> isCreatingGif) /\ [][C20_Step]_vars

\* the encoder works on four frames with the delay of speed 500 while the App
\* already shows the two frames of a later run at speed 1000
C20_Witness ==
    /\ export.pc = "rendering"
    /\ Len(export.frames) = 4
    /\ export.speed = 500
    /\ export.encoder[1].delay = 600
    /\ playbackSpeed = 1000
    /\ PlayerShown(frames, isLoading)
    /\ Len(Get(frames)) = 2

====
